---- MODULE Spec2Model ----
(***************************************************************************)
(* Column-level lineage inference over a dbt manifest and catalog:         *)
(*   src/all_lineage.py   extract_column_lineage        (flat mode)        *)
(*   src/single_model.py  extract_model_column_lineage  (targeted mode)    *)
(* Strings (names, column names, compiled SQL) are sequences of one-       *)
(* character strings, so that splitting and pattern matching are computed. *)
(* Python dicts are insertion-ordered: a dict is a sequence of records     *)
(* [k |-> key, v |-> value] with distinct keys.                            *)
(***************************************************************************)
EXTENDS Integers, Sequences, FiniteSets, TLC

(***************************************************************************)
(* Characters and the classes the patterns of re use.                     *)
(***************************************************************************)
UpperChars == <<"A","B","C","D","E","F","G","H","I","J","K","L","M",
                "N","O","P","Q","R","S","T","U","V","W","X","Y","Z">>

LowerChars == <<"a","b","c","d","e","f","g","h","i","j","k","l","m",
                "n","o","p","q","r","s","t","u","v","w","x","y","z">>

DigitChars == {"0","1","2","3","4","5","6","7","8","9"}

UpperSet == {UpperChars[n] : n \in 1..26}

LowerMap == [ch \in UpperSet |-> LowerChars[CHOOSE n \in 1..26 : UpperChars[n] = ch]]

\* \w of re for ASCII text: letters, digits and the underscore
WordChars == UpperSet \cup {LowerChars[n] : n \in 1..26} \cup DigitChars \cup {"_"}

\* \s of re for ASCII text
SpaceChars == {" ", "\t", "\n", "\r", "\f"}

\* re.IGNORECASE compares case-folded characters; without the flag, characters as they are
Fold(ch, ic) == IF ic /\ ch \in UpperSet THEN LowerMap[ch] ELSE ch

Positions(text) == 0..Len(text)

IsWordAt(text, k) == k \in 1..Len(text) /\ text[k] \in WordChars

\* \b at position p (between text[p] and text[p+1])
WordBoundary(text, p) == IsWordAt(text, p) # IsWordAt(text, p + 1)

\* re.escape(lit) matched at position p
MatchLit(text, p, lit, ic) ==
    /\ p + Len(lit) <= Len(text)
    /\ \A k \in 1..Len(lit) : Fold(text[p + k], ic) = Fold(lit[k], ic)

(***************************************************************************)
(* A pattern is a concatenation of pieces; each piece maps the set of      *)
(* positions a match may have reached to the set it may reach next.        *)
(***************************************************************************)
AfterLit(text, P, lit, ic) == {p + Len(lit) : p \in {q \in P : MatchLit(text, q, lit, ic)}}

AfterBoundary(text, P) == {p \in P : WordBoundary(text, p)}

\* \s*
AfterSpaces0(text, P) ==
    {q \in Positions(text) : \E p \in P : p <= q /\ \A k \in (p + 1)..q : text[k] \in SpaceChars}

\* \s+
AfterSpaces1(text, P) ==
    {q \in Positions(text) : \E p \in P : p < q /\ \A k \in (p + 1)..q : text[k] \in SpaceChars}

\* a bug: .* held within one item of the select list (the dot matching no comma either)
DotStarWithinItem(text, P) ==
    {q \in Positions(text) : \E p \in P : p <= q /\ \A k \in (p + 1)..q : text[k] \notin {"\n", ","}}

\* .* (the dot matches anything but a newline)
AfterDotStar(text, P) ==
    {q \in Positions(text) : \E p \in P : p <= q /\ \A k \in (p + 1)..q : text[k] # "\n"}

\* \b re.escape(word) \b
AfterWord(text, P, word, ic) == AfterBoundary(text, AfterLit(text, AfterBoundary(text, P), word, ic))

kw_select == <<"s","e","l","e","c","t">>

kw_as == <<"a","s">>

\* re.search(r'\b' + re.escape(col) + r'\b', compiled_sql)
col_pattern(compiled_sql, col) == AfterWord(compiled_sql, Positions(compiled_sql), col, FALSE) # {}

\* re.search(r'\b' + model_col + r'\s*=.*\b' + col + r'\b', compiled_sql, re.IGNORECASE)
col_usage_pattern(compiled_sql, model_col, col) ==
    LET p1 == AfterLit(compiled_sql, AfterBoundary(compiled_sql, Positions(compiled_sql)), model_col, TRUE)
        p2 == AfterLit(compiled_sql, AfterSpaces0(compiled_sql, p1), <<"=">>, TRUE)
        p3 == AfterWord(compiled_sql, AfterDotStar(compiled_sql, p2), col, TRUE)
    IN  p3 # {}

\* re.search(r'(?:select|,)\s*.*\b' + col + r'\b.*\s+as\s+\b' + model_col + r'\b', compiled_sql, re.IGNORECASE)
col_in_select(compiled_sql, model_col, col) ==
    LET p0 == Positions(compiled_sql)
        p1 == AfterLit(compiled_sql, p0, kw_select, TRUE) \cup AfterLit(compiled_sql, p0, <<",">>, TRUE)
        p2 == AfterDotStar(compiled_sql, AfterSpaces0(compiled_sql, p1))
        p3 == AfterWord(compiled_sql, p2, col, TRUE)
        p4 == AfterSpaces1(compiled_sql, AfterDotStar(compiled_sql, p3))
        p5 == AfterSpaces1(compiled_sql, AfterLit(compiled_sql, p4, kw_as, TRUE))
        p6 == AfterWord(compiled_sql, p5, model_col, TRUE)
    IN  p6 # {}

(***************************************************************************)
(* Insertion-ordered dicts.                                                *)
(***************************************************************************)
EmptyDict == <<>>

Keys(d) == [n \in 1..Len(d) |-> d[n].k]

Has(d, key) == \E n \in 1..Len(d) : d[n].k = key

Get(d, key) == d[CHOOSE n \in 1..Len(d) : d[n].k = key].v

\* d[key] = value: an existing key keeps its place, a new key goes last
Put(d, key, value) ==
    IF Has(d, key)
    THEN [n \in 1..Len(d) |-> IF d[n].k = key THEN [k |-> key, v |-> value] ELSE d[n]]
    ELSE Append(d, [k |-> key, v |-> value])

Range(s) == {s[n] : n \in 1..Len(s)}

\* name.split('.')[-1]
LastSegment(name) ==
    LET dots == {n \in 1..Len(name) : name[n] = "."}
        from == IF dots = {} THEN 0 ELSE CHOOSE n \in dots : \A o \in dots : o <= n
    IN  SubSeq(name, from + 1, Len(name))

\* Python's None, distinct from every string
None == <<"None">>

(***************************************************************************)
(* The inputs: manifest nodes and catalog nodes, drawn from bounded sets.  *)
(***************************************************************************)
MaxDeps == 2

name_a == <<"p", ".", "a">>

name_b == <<"p", ".", "b">>

NodeNames == {name_a, name_b}

col_x == <<"x">>

col_y == <<"y">>

\* "x = y": the assignment pattern links own column x to upstream column y
sql_assign == <<"x", " ", "=", " ", "y">>

\* "select x as y": the aliasing pattern links own column y to upstream column x
sql_alias == <<"s","e","l","e","c","t"," ","x"," ","a","s"," ","y">>

\* "x = Y": the assignment pattern matches x and y case-insensitively, the word y does not occur
sql_upper == <<"x", " ", "=", " ", "Y">>

SqlTexts == {sql_assign, sql_alias, sql_upper}

DepLists == UNION {[1..n -> NodeNames] : n \in 0..MaxDeps}

\* a manifest node: a JSON object whose keys may be missing
ManifestNodes ==
    {[resource_type |-> "model", compiled_sql |-> t, depends_on |-> [nodes |-> d]] :
        t \in SqlTexts, d \in DepLists}
    \cup {[resource_type |-> "model", depends_on |-> [nodes |-> <<name_a>>]],
          [resource_type |-> "model", compiled_sql |-> <<>>, depends_on |-> [nodes |-> <<name_b>>]],
          [resource_type |-> "seed", compiled_sql |-> sql_assign, depends_on |-> [nodes |-> <<name_b>>]],
          [resource_type |-> "seed", compiled_sql |-> sql_alias, depends_on |-> [nodes |-> <<name_a>>]]}

\* a catalog node: metadata.type and the columns object (its keys, in order)
CatalogNodes ==
    {[metadata |-> [type |-> "table"], columns |-> <<col_x>>],
     [metadata |-> [type |-> "view"], columns |-> <<col_x, col_y>>],
     [metadata |-> [type |-> "external"], columns |-> <<col_x, col_y>>]}

\* the dicts with keys among names, in the order given
DictsOver(names, values) ==
    UNION {{[n \in 1..Len(ks) |-> [k |-> ks[n], v |-> f[n]]] : f \in [1..Len(ks) -> values]} :
             ks \in names}

NodeOrders == {<<name_a>>, <<name_a, name_b>>}

CatalogOrders == {<<name_a>>, <<name_a, name_b>>}

\* --model argument: absent, or a last segment
TargetModels == {<<>>, <<"a">>, <<"b">>}


(***************************************************************************)
(* The two scenarios of the inference heuristic: one model, order_summary, *)
(* over one upstream table, with the compiled text of the scenario.        *)
(***************************************************************************)
name_raw_orders ==
    <<"r","a","w","_","o","r","d","e","r","s">>

name_order_summary ==
    <<"o","r","d","e","r","_","s","u","m","m","a","r","y">>

name_orders ==
    <<"o","r","d","e","r","s">>

col_id ==
    <<"i","d">>

col_amount ==
    <<"a","m","o","u","n","t">>

col_order_id ==
    <<"o","r","d","e","r","_","i","d">>

col_total ==
    <<"t","o","t","a","l">>

col_customer_id ==
    <<"c","u","s","t","o","m","e","r","_","i","d">>

\* "select id as order_id, amount as total from raw_orders"
sql_aliasing ==
    <<"s","e","l","e","c","t"," ","i","d"," ","a","s"," ","o","r","d","e","r","_","i",
      "d",","," ","a","m","o","u","n","t"," ","a","s"," ","t","o","t","a","l"," ","f",
      "r","o","m"," ","r","a","w","_","o","r","d","e","r","s">>

\* "select order_id, sum(amount) as total from orders group by order_id"
sql_passthrough ==
    <<"s","e","l","e","c","t"," ","o","r","d","e","r","_","i","d",","," ","s","u","m",
      "(","a","m","o","u","n","t",")"," ","a","s"," ","t","o","t","a","l"," ","f","r",
      "o","m"," ","o","r","d","e","r","s"," ","g","r","o","u","p"," ","b","y"," ","o",
      "r","d","e","r","_","i","d">>

\* aliasing: catalog raw_orders [id, amount], order_summary [order_id, total]
ScenarioAliasing ==
    [nodes |-> <<[k |-> name_order_summary,
                  v |-> [resource_type |-> "model", compiled_sql |-> sql_aliasing,
                         depends_on |-> [nodes |-> <<name_raw_orders>>]]]>>,
     catalog |-> <<[k |-> name_raw_orders,
                    v |-> [metadata |-> [type |-> "table"], columns |-> <<col_id, col_amount>>]],
                   [k |-> name_order_summary,
                    v |-> [metadata |-> [type |-> "table"], columns |-> <<col_order_id, col_total>>]]>>]

\* unaliased passthrough: catalog orders [order_id, customer_id], order_summary [order_id, total]
ScenarioPassthrough ==
    [nodes |-> <<[k |-> name_order_summary,
                  v |-> [resource_type |-> "model", compiled_sql |-> sql_passthrough,
                         depends_on |-> [nodes |-> <<name_orders>>]]]>>,
     catalog |-> <<[k |-> name_orders,
                    v |-> [metadata |-> [type |-> "table"], columns |-> <<col_order_id, col_customer_id>>]],
                   [k |-> name_order_summary,
                    v |-> [metadata |-> [type |-> "table"], columns |-> <<col_order_id, col_total>>]]>>]

Scenarios == {ScenarioAliasing, ScenarioPassthrough}

VARIABLES
    script,               \* "all_lineage" (flat mode) or "single_model" (targeted mode)
    nodes,                \* manifest.get('nodes', {})
    catalog,              \* catalog.get('nodes', {})
    target_model,         \* the target_model argument ("" when not given)
    pc,                   \* position in the script
    model_columns,        \* node name -> list of column names
    target_node_name,     \* full node name of the target, or None
    i,                    \* position of the node loop in nodes
    column_lineage,       \* flat mode: model -> column -> upstream model -> [upstream column]
    all_column_lineage,   \* targeted mode: the same mapping
    upstream_lineage,     \* targeted mode: target -> column -> upstream closure
    downstream_lineage,   \* targeted mode: target -> column -> downstream closure;
                          \* flat mode: upstream model -> upstream column -> [(model, column)]
    ci,                   \* position of the root loop in the target's columns
    stack,                \* frames of get_upstream_lineage / get_downstream_lineage
    visited,              \* the visited set shared by the calls of one root
    expanded,             \* history: the keys whose edges were looked up for the current root
    files,                \* path -> content written
    returned,             \* <<>> before the return, <<value>> after it
    error                 \* the exception that ended the run, "None" while there is none

vars == <<script, nodes, catalog, target_model, pc, model_columns, target_node_name, i,
          column_lineage, all_column_lineage, upstream_lineage, downstream_lineage,
          ci, stack, visited, expanded, files, returned, error>>

inputs == <<script, nodes, catalog, target_model>>

closure_vars == <<ci, stack, visited, expanded>>

Init ==
    /\ script \in {"all_lineage", "single_model"}
    /\ \/ /\ nodes \in DictsOver(NodeOrders, ManifestNodes)
          /\ catalog \in DictsOver(CatalogOrders, CatalogNodes)
          /\ target_model \in IF script = "single_model" THEN TargetModels ELSE {<<>>}
       \/ /\ \E s \in Scenarios : nodes = s.nodes /\ catalog = s.catalog
          /\ target_model \in IF script = "single_model" THEN {<<>>, name_order_summary} ELSE {<<>>}
    /\ pc = "load"
    /\ model_columns = EmptyDict
    /\ target_node_name = None
    /\ i = 1
    /\ column_lineage = EmptyDict
    /\ all_column_lineage = EmptyDict
    /\ upstream_lineage = EmptyDict
    /\ downstream_lineage = EmptyDict
    /\ ci = 1
    /\ stack = <<>>
    /\ visited = {}
    /\ expanded = <<>>
    /\ files = EmptyDict
    /\ returned = <<>>
    /\ error = "None"

(***************************************************************************)
(* Column information from the catalog.                                    *)
(***************************************************************************)
\* node.get('metadata', {}).get('type')
metadata_type(node) ==
    IF "metadata" \in DOMAIN node /\ "type" \in DOMAIN node.metadata THEN node.metadata.type ELSE "None"

\* a bug: the kind of the catalog entry not looked at
AnyKind(node) == TRUE

IsTableOrView(node) == metadata_type(node) \in {"table", "view"}

\* list(node.get('columns', {}).keys())
columns_of(node) == IF "columns" \in DOMAIN node THEN node.columns ELSE <<>>

BuildModelColumns(cat) ==
    LET F[n \in 0..Len(cat)] ==
            IF n = 0 THEN EmptyDict
            ELSE IF IsTableOrView(cat[n].v) THEN Put(F[n - 1], cat[n].k, columns_of(cat[n].v))
                 ELSE F[n - 1]
    IN  F[Len(cat)]

LoadCatalog ==
    /\ pc = "load"
    /\ model_columns' = BuildModelColumns(catalog)
    /\ pc' = IF script = "single_model" THEN "find" ELSE "infer"
    /\ UNCHANGED <<inputs, target_node_name, i, column_lineage, all_column_lineage,
                   upstream_lineage, downstream_lineage, closure_vars, files, returned, error>>

(***************************************************************************)
(* Targeted mode: the full node name of the target model.                  *)
(***************************************************************************)
\* the first node, in manifest order, whose last segment is the target
FirstMatch(ns, target) ==
    LET hits == {n \in 1..Len(ns) : LastSegment(ns[n].k) = target}
    IN  IF hits = {} THEN None ELSE ns[CHOOSE n \in hits : \A o \in hits : n <= o].k

\* Python truth of a string: the empty string is false
Truthy(str) == str # <<>>

FindTarget ==
    /\ pc = "find"
    /\ LET found == IF Truthy(target_model) THEN FirstMatch(nodes, target_model) ELSE None
       IN  /\ target_node_name' = found
           /\ IF Truthy(target_model) /\ (found = None \/ ~Truthy(found))
              THEN pc' = "done" /\ returned' = <<EmptyDict>>
              ELSE pc' = "infer" /\ UNCHANGED returned
    /\ UNCHANGED <<inputs, model_columns, i, column_lineage, all_column_lineage,
                   upstream_lineage, downstream_lineage, closure_vars, files, error>>

(***************************************************************************)
(* Edge inference: the loops over dependencies, their columns and the      *)
(* model's own columns.                                                    *)
(***************************************************************************)
\* node.get('resource_type')
resource_type(node) == IF "resource_type" \in DOMAIN node THEN node.resource_type ELSE "None"

\* node.get('compiled_sql', '')
compiled_sql(node) == IF "compiled_sql" \in DOMAIN node THEN node.compiled_sql ELSE <<>>

\* a bug: every model of the catalog taken for a dependency ("for dep_node in model_columns")
depends_on_catalog(node) == Keys(model_columns)

\* node.get('depends_on', {}).get('nodes', [])
depends_on(node) ==
    IF "depends_on" \in DOMAIN node /\ "nodes" \in DOMAIN node.depends_on
    THEN node.depends_on.nodes ELSE <<>>

\* dep_cols = model_columns[dep_node]
dep_cols(mcols, dep_node) == Get(mcols, dep_node)

\* a bug: the gate searched with re.IGNORECASE, like the two patterns after it
PresenceGateIgnoreCase(sql, col) == AfterWord(sql, Positions(sql), col, TRUE) # {}

\* the presence gate: if re.search(col_pattern, compiled_sql)
PresenceGate(sql, col) == col_pattern(sql, col)

\* a bug: the aliasing pattern left out of the test
AssignmentOnly(sql, model_col, col) == col_usage_pattern(sql, model_col, col)

\* if re.search(col_usage_pattern, ...) or re.search(col_in_select, ...)
PatternMatch(sql, model_col, col) ==
    col_usage_pattern(sql, model_col, col) \/ col_in_select(sql, model_col, col)

\* d[key] if present, else the default (the "if key not in d: d[key] = default" idiom)
SetDefault(d, key, default) == IF Has(d, key) THEN d ELSE Put(d, key, default)

\* targeted mode: record col in all_column_lineage[node_name][model_col][dep_node], once
RecordUpstream(g, node_name, model_col, dep_node, col) ==
    LET g1 == SetDefault(g, node_name, EmptyDict)
        cols1 == SetDefault(Get(g1, node_name), model_col, EmptyDict)
        ups1 == SetDefault(Get(cols1, model_col), dep_node, <<>>)
        list == Get(ups1, dep_node)
        list1 == IF col \in Range(list) THEN list ELSE Append(list, col)
    IN  Put(g1, node_name, Put(cols1, model_col, Put(ups1, dep_node, list1)))

\* flat mode: append col to column_lineage[node_name][model_col][dep_node]
AppendUpstream(g, node_name, model_col, dep_node, col) ==
    LET cols1 == SetDefault(Get(g, node_name), model_col, EmptyDict)
        ups1 == SetDefault(Get(cols1, model_col), dep_node, <<>>)
        list1 == Append(Get(ups1, dep_node), col)
    IN  Put(g, node_name, Put(cols1, model_col, Put(ups1, dep_node, list1)))

\* targeted mode: for model_col in model_cols
ModelColsTargeted(g, node_name, sql, model_cols, dep_node, col) ==
    LET F[n \in 0..Len(model_cols)] ==
            IF n = 0 THEN g
            ELSE IF PatternMatch(sql, model_cols[n], col)
                 THEN RecordUpstream(F[n - 1], node_name, model_cols[n], dep_node, col)
                 ELSE F[n - 1]
    IN  F[Len(model_cols)]

\* targeted mode: for col in dep_cols
DepColsTargeted(g, node_name, sql, model_cols, dep_node, dcols) ==
    LET F[n \in 0..Len(dcols)] ==
            IF n = 0 THEN g
            ELSE IF PresenceGate(sql, dcols[n])
                 THEN ModelColsTargeted(F[n - 1], node_name, sql, model_cols, dep_node, dcols[n])
                 ELSE F[n - 1]
    IN  F[Len(dcols)]

\* targeted mode: for dep_node in depends_on
DepsTargeted(g, node_name, sql, model_cols, deps, mcols) ==
    LET F[n \in 0..Len(deps)] ==
            IF n = 0 THEN g
            ELSE IF Has(mcols, deps[n])
                 THEN DepColsTargeted(F[n - 1], node_name, sql, model_cols, deps[n],
                                      dep_cols(mcols, deps[n]))
                 ELSE F[n - 1]
    IN  F[Len(deps)]

\* targeted mode: one iteration of "for node_name, node in nodes.items()"
NodeTargeted(g, node_name, node, mcols) ==
    IF /\ resource_type(node) = "model"
       /\ Truthy(compiled_sql(node))
       /\ Has(mcols, node_name)
    THEN DepsTargeted(g, node_name, compiled_sql(node), Get(mcols, node_name),
                      depends_on(node), mcols)
    ELSE g

\* flat mode: for model_col in model_cols
ModelColsFlat(g, node_name, sql, model_cols, dep_node, col) ==
    LET F[n \in 0..Len(model_cols)] ==
            IF n = 0 THEN g
            ELSE IF PatternMatch(sql, model_cols[n], col)
                 THEN AppendUpstream(F[n - 1], node_name, model_cols[n], dep_node, col)
                 ELSE F[n - 1]
    IN  F[Len(model_cols)]

\* flat mode: for col in dep_cols; the model's entry is created as soon as the gate passes
DepColsFlat(g, node_name, sql, model_cols, dep_node, dcols) ==
    LET F[n \in 0..Len(dcols)] ==
            IF n = 0 THEN g
            ELSE IF PresenceGate(sql, dcols[n])
                 THEN ModelColsFlat(SetDefault(F[n - 1], node_name, EmptyDict), node_name, sql,
                                    model_cols, dep_node, dcols[n])
                 ELSE F[n - 1]
    IN  F[Len(dcols)]

\* flat mode: for dep_node in depends_on
DepsFlat(g, node_name, sql, model_cols, deps, mcols) ==
    LET F[n \in 0..Len(deps)] ==
            IF n = 0 THEN g
            ELSE IF Has(mcols, deps[n])
                 THEN DepColsFlat(F[n - 1], node_name, sql, model_cols, deps[n],
                                  dep_cols(mcols, deps[n]))
                 ELSE F[n - 1]
    IN  F[Len(deps)]

\* flat mode: one iteration of "for node_name, node in nodes.items()"
NodeFlat(g, node_name, node, mcols) ==
    IF /\ resource_type(node) = "model"
       /\ Truthy(compiled_sql(node))
       /\ Has(mcols, node_name)
    THEN DepsFlat(g, node_name, compiled_sql(node), Get(mcols, node_name),
                  depends_on(node), mcols)
    ELSE g

\* flat mode: the graph after the whole node loop
FlatGraphOf(ns, mcols) ==
    LET F[n \in 0..Len(ns)] ==
            IF n = 0 THEN EmptyDict ELSE NodeFlat(F[n - 1], ns[n].k, ns[n].v, mcols)
    IN  F[Len(ns)]

\* targeted mode: the graph after the whole node loop
TargetedGraphOf(ns, mcols) ==
    LET F[n \in 0..Len(ns)] ==
            IF n = 0 THEN EmptyDict ELSE NodeTargeted(F[n - 1], ns[n].k, ns[n].v, mcols)
    IN  F[Len(ns)]

InferFlat ==
    /\ pc = "infer"
    /\ script = "all_lineage"
    /\ i <= Len(nodes)
    /\ column_lineage' = NodeFlat(column_lineage, nodes[i].k, nodes[i].v, model_columns)
    /\ i' = i + 1
    /\ UNCHANGED <<inputs, pc, model_columns, target_node_name, all_column_lineage,
                   upstream_lineage, downstream_lineage, closure_vars, files, returned, error>>

InferTargeted ==
    /\ pc = "infer"
    /\ script = "single_model"
    /\ i <= Len(nodes)
    /\ all_column_lineage' = NodeTargeted(all_column_lineage, nodes[i].k, nodes[i].v, model_columns)
    /\ i' = i + 1
    /\ UNCHANGED <<inputs, pc, model_columns, target_node_name, column_lineage,
                   upstream_lineage, downstream_lineage, closure_vars, files, returned, error>>

(***************************************************************************)
(* Flat mode: the exports.                                                 *)
(***************************************************************************)
\* the edges of a graph as rows (model, column, upstream model, upstream column), in dict order
RECURSIVE Concat(_)
Concat(seqs) == IF seqs = <<>> THEN <<>> ELSE Head(seqs) \o Concat(Tail(seqs))

EdgeList(g) ==
    Concat([m \in 1..Len(g) |->
      Concat([c \in 1..Len(g[m].v) |->
        Concat([u \in 1..Len(g[m].v[c].v) |->
          [n \in 1..Len(g[m].v[c].v[u].v) |->
             <<g[m].k, g[m].v[c].k, g[m].v[c].v[u].k, g[m].v[c].v[u].v[n]>>]])])])

\* a CSV row: both model names reduced to their last segment
CsvRow(model, column, related_model, related_column) ==
    <<LastSegment(model), column, LastSegment(related_model), related_column>>

\* os.path.join(output_dir, name)
Path(prefix, name) == <<prefix, name>>

\* json.dump(column_lineage) to column_lineage.json, then the rows of column_lineage.csv
ExportFlat ==
    /\ pc = "infer"
    /\ script = "all_lineage"
    /\ i > Len(nodes)
    /\ LET edges == EdgeList(column_lineage)
           rows == [n \in 1..Len(edges) |-> CsvRow(edges[n][1], edges[n][2], edges[n][3], edges[n][4])]
       IN  files' = Put(Put(files, Path(<<>>, "column_lineage.json"), column_lineage),
                        Path(<<>>, "column_lineage.csv"), rows)
    /\ pc' = "invert"
    /\ UNCHANGED <<inputs, model_columns, target_node_name, i, column_lineage, all_column_lineage,
                   upstream_lineage, downstream_lineage, closure_vars, returned, error>>

\* a bug: the entry filed under the model's own column, the upstream pair as its value
AppendNotInverted(d, edge) ==
    LET d1 == SetDefault(d, edge[1], EmptyDict)
        cols1 == SetDefault(Get(d1, edge[1]), edge[2], <<>>)
    IN  Put(d1, edge[1], Put(cols1, edge[2], Append(Get(cols1, edge[2]), <<edge[3], edge[4]>>)))

\* downstream_lineage[upstream_model][upstream_column].append((model, column))
AppendDownstream(d, edge) ==
    LET d1 == SetDefault(d, edge[3], EmptyDict)
        cols1 == SetDefault(Get(d1, edge[3]), edge[4], <<>>)
    IN  Put(d1, edge[3], Put(cols1, edge[4], Append(Get(cols1, edge[4]), <<edge[1], edge[2]>>)))

\* invert the lineage to show downstream relationships
Invert(g) ==
    LET edges == EdgeList(g)
        F[n \in 0..Len(edges)] == IF n = 0 THEN EmptyDict ELSE AppendDownstream(F[n - 1], edges[n])
    IN  F[Len(edges)]

\* the rows of downstream_lineage.csv
DownstreamRows(d) ==
    Concat([m \in 1..Len(d) |->
      Concat([c \in 1..Len(d[m].v) |->
        [n \in 1..Len(d[m].v[c].v) |->
           CsvRow(d[m].k, d[m].v[c].k, d[m].v[c].v[n][1], d[m].v[c].v[n][2])]])])

ExportDownstreamFlat ==
    /\ pc = "invert"
    /\ downstream_lineage' = Invert(column_lineage)
    /\ files' = Put(files, Path(<<>>, "downstream_lineage.csv"), DownstreamRows(downstream_lineage'))
    /\ returned' = <<column_lineage>>
    /\ pc' = "done"
    /\ UNCHANGED <<inputs, model_columns, target_node_name, i, column_lineage, all_column_lineage,
                   upstream_lineage, closure_vars, error>>

(***************************************************************************)
(* Targeted mode: the closures.  get_upstream_lineage and                  *)
(* get_downstream_lineage recurse; the recursion is a stack of frames      *)
(* [key, result, items, n]: the pair being expanded, its result dict so    *)
(* far, its related pairs in the order the loops meet them, and the        *)
(* position of the loops in that list.                                     *)
(***************************************************************************)
\* the depth at which the interpreter ends a recursion with RecursionError
RecursionLimit == 6

\* a bug: the visited check left out
NeverVisited(key, vis) == FALSE

\* if key in visited
IsVisited(key, vis) == key \in vis

\* result with an empty dict under every key of ks, in order
EmptyUnder(ks) ==
    LET F[n \in 0..Len(ks)] == IF n = 0 THEN EmptyDict ELSE SetDefault(F[n - 1], ks[n], EmptyDict)
    IN  F[Len(ks)]

\* the direct upstream edges of (node_name, column_name): all_column_lineage[node_name][column_name]
UpstreamEdges(g, node_name, column_name) ==
    IF Has(g, node_name) /\ Has(Get(g, node_name), column_name)
    THEN Get(Get(g, node_name), column_name)
    ELSE EmptyDict

\* the frame of a call of get_upstream_lineage that passed the visited check
UpstreamFrame(g, node_name, column_name) ==
    LET ups == UpstreamEdges(g, node_name, column_name)
    IN  [key |-> <<node_name, column_name>>,
         result |-> EmptyUnder(Keys(ups)),
         items |-> Concat([u \in 1..Len(ups) |->
                     [n \in 1..Len(ups[u].v) |-> <<ups[u].k, ups[u].v[n]>>]]),
         n |-> 1]

\* a bug: the scan passing over the columns of the model it was called for
DownstreamItemsOfOthers(g, node_name, column_name) ==
    LET edges == EdgeList(g)
        F[n \in 0..Len(edges)] ==
            IF n = 0 THEN <<>>
            ELSE IF edges[n][3] = node_name /\ edges[n][4] = column_name
                    /\ edges[n][1] # node_name
                    /\ <<edges[n][1], edges[n][2]>> \notin Range(F[n - 1])
                 THEN Append(F[n - 1], <<edges[n][1], edges[n][2]>>)
                 ELSE F[n - 1]
    IN  F[Len(edges)]

\* the scan of the whole graph for edges whose upstream side is (node_name, column_name)
DownstreamItems(g, node_name, column_name) ==
    LET edges == EdgeList(g)
        F[n \in 0..Len(edges)] ==
            IF n = 0 THEN <<>>
            ELSE IF edges[n][3] = node_name /\ edges[n][4] = column_name
                    \* if downstream_col not in result[downstream_node]
                    /\ <<edges[n][1], edges[n][2]>> \notin Range(F[n - 1])
                 THEN Append(F[n - 1], <<edges[n][1], edges[n][2]>>)
                 ELSE F[n - 1]
    IN  F[Len(edges)]

\* the frame of a call of get_downstream_lineage that passed the visited check
DownstreamFrame(g, node_name, column_name) ==
    LET items == DownstreamItems(g, node_name, column_name)
    IN  [key |-> <<node_name, column_name>>,
         result |-> EmptyUnder([n \in 1..Len(items) |-> items[n][1]]),
         items |-> items,
         n |-> 1]

Top == stack[Len(stack)]

NextItem == Top.items[Top.n]

\* result[related_node][related_col] = value, and on to the next item
SetResult(frame, value) ==
    LET item == frame.items[frame.n]
    IN  [frame EXCEPT !.result = Put(@, item[1], Put(Get(@, item[1]), item[2], value)),
                      !.n = @ + 1]

TargetColumns == Get(model_columns, target_node_name)

\* the node loop is over: the targeted script is at "if target_node_name:"
InferenceOver == pc = "infer" /\ script = "single_model" /\ i > Len(nodes)

\* "for column in model_columns[target_node_name]" has a next column
AtRoot(dir) == pc = dir /\ stack = <<>> /\ ci <= Len(TargetColumns)

\* "for column in model_columns[target_node_name]" is over
RootsDone(dir) == pc = dir /\ stack = <<>> /\ ci > Len(TargetColumns)

\* the loops of the innermost call have a next related pair
InCall(dir) == pc = dir /\ stack # <<>> /\ Top.n <= Len(Top.items)

\* the loops of the innermost call are over: return result
AtReturn(dir) == pc = dir /\ stack # <<>> /\ Top.n > Len(Top.items)

\* if target_node_name: ... if target_node_name in model_columns: upstream_lineage[target_node_name] = {}
StartUpstream ==
    /\ InferenceOver
    /\ IF target_node_name # None /\ Has(model_columns, target_node_name)
       THEN /\ upstream_lineage' = Put(upstream_lineage, target_node_name, EmptyDict)
            /\ pc' = "up"
       ELSE /\ pc' = "export"
            /\ UNCHANGED upstream_lineage
    /\ ci' = 1
    /\ UNCHANGED <<inputs, model_columns, target_node_name, i, column_lineage, all_column_lineage,
                   downstream_lineage, stack, visited, expanded, files, returned, error>>

\* the call get_upstream_lineage(target_node_name, column): a fresh visited set
UpRoot ==
    /\ AtRoot("up")
    /\ visited' = {<<target_node_name, TargetColumns[ci]>>}
    /\ expanded' = <<<<target_node_name, TargetColumns[ci]>>>>
    /\ stack' = <<UpstreamFrame(all_column_lineage, target_node_name, TargetColumns[ci])>>
    /\ UNCHANGED <<inputs, pc, model_columns, target_node_name, i, column_lineage,
                   all_column_lineage, upstream_lineage, downstream_lineage, ci, files,
                   returned, error>>

\* the recursive call on a pair not yet visited
UpDescend ==
    /\ InCall("up")
    /\ ~IsVisited(NextItem, visited)
    /\ IF Len(stack) >= RecursionLimit
       THEN /\ pc' = "raised"
            /\ error' = "RecursionError"
            /\ UNCHANGED <<stack, visited, expanded>>
       ELSE /\ visited' = visited \cup {NextItem}
            /\ expanded' = Append(expanded, NextItem)
            /\ stack' = Append(stack, UpstreamFrame(all_column_lineage, NextItem[1], NextItem[2]))
            /\ UNCHANGED <<pc, error>>
    /\ UNCHANGED <<inputs, model_columns, target_node_name, i, column_lineage, all_column_lineage,
                   upstream_lineage, downstream_lineage, ci, files, returned>>

\* the recursive call on a visited pair returns {} at once
UpRevisit ==
    /\ InCall("up")
    /\ IsVisited(NextItem, visited)
    /\ stack' = [stack EXCEPT ![Len(stack)] = SetResult(@, EmptyDict)]
    /\ UNCHANGED <<inputs, pc, model_columns, target_node_name, i, column_lineage,
                   all_column_lineage, upstream_lineage, downstream_lineage, ci, visited,
                   expanded, files, returned, error>>

\* a bug: the key taken out of visited when its call returns (visited kept per path)
UpReturnPerPath ==
    /\ AtReturn("up")
    /\ visited' = visited \ {Top.key}
    /\ IF Len(stack) = 1
       THEN /\ upstream_lineage' =
                  Put(upstream_lineage, target_node_name,
                      Put(Get(upstream_lineage, target_node_name), TargetColumns[ci], Top.result))
            /\ ci' = ci + 1
            /\ stack' = <<>>
       ELSE /\ stack' = [SubSeq(stack, 1, Len(stack) - 1) EXCEPT
                            ![Len(stack) - 1] = SetResult(@, Top.result)]
            /\ UNCHANGED <<upstream_lineage, ci>>
    /\ UNCHANGED <<inputs, pc, model_columns, target_node_name, i, column_lineage,
                   all_column_lineage, downstream_lineage, expanded, files,
                   returned, error>>

\* return result: to the caller's result dict, or to upstream_lineage[target_node_name][column]
UpReturn ==
    /\ AtReturn("up")
    /\ IF Len(stack) = 1
       THEN /\ upstream_lineage' =
                  Put(upstream_lineage, target_node_name,
                      Put(Get(upstream_lineage, target_node_name), TargetColumns[ci], Top.result))
            /\ ci' = ci + 1
            /\ stack' = <<>>
       ELSE /\ stack' = [SubSeq(stack, 1, Len(stack) - 1) EXCEPT
                            ![Len(stack) - 1] = SetResult(@, Top.result)]
            /\ UNCHANGED <<upstream_lineage, ci>>
    /\ UNCHANGED <<inputs, pc, model_columns, target_node_name, i, column_lineage,
                   all_column_lineage, downstream_lineage, visited, expanded, files,
                   returned, error>>

\* if target_node_name in model_columns: downstream_lineage[target_node_name] = {}
StartDownstream ==
    /\ RootsDone("up")
    /\ downstream_lineage' = Put(downstream_lineage, target_node_name, EmptyDict)
    /\ ci' = 1
    /\ pc' = "down"
    /\ UNCHANGED <<inputs, model_columns, target_node_name, i, column_lineage, all_column_lineage,
                   upstream_lineage, stack, visited, expanded, files, returned, error>>

\* the call get_downstream_lineage(target_node_name, column): a fresh visited set
DownRoot ==
    /\ AtRoot("down")
    /\ visited' = {<<target_node_name, TargetColumns[ci]>>}
    /\ expanded' = <<<<target_node_name, TargetColumns[ci]>>>>
    /\ stack' = <<DownstreamFrame(all_column_lineage, target_node_name, TargetColumns[ci])>>
    /\ UNCHANGED <<inputs, pc, model_columns, target_node_name, i, column_lineage,
                   all_column_lineage, upstream_lineage, downstream_lineage, ci, files,
                   returned, error>>

DownDescend ==
    /\ InCall("down")
    /\ ~IsVisited(NextItem, visited)
    /\ IF Len(stack) >= RecursionLimit
       THEN /\ pc' = "raised"
            /\ error' = "RecursionError"
            /\ UNCHANGED <<stack, visited, expanded>>
       ELSE /\ visited' = visited \cup {NextItem}
            /\ expanded' = Append(expanded, NextItem)
            /\ stack' = Append(stack, DownstreamFrame(all_column_lineage, NextItem[1], NextItem[2]))
            /\ UNCHANGED <<pc, error>>
    /\ UNCHANGED <<inputs, model_columns, target_node_name, i, column_lineage, all_column_lineage,
                   upstream_lineage, downstream_lineage, ci, files, returned>>

DownRevisit ==
    /\ InCall("down")
    /\ IsVisited(NextItem, visited)
    /\ stack' = [stack EXCEPT ![Len(stack)] = SetResult(@, EmptyDict)]
    /\ UNCHANGED <<inputs, pc, model_columns, target_node_name, i, column_lineage,
                   all_column_lineage, upstream_lineage, downstream_lineage, ci, visited,
                   expanded, files, returned, error>>

DownReturn ==
    /\ AtReturn("down")
    /\ IF Len(stack) = 1
       THEN /\ downstream_lineage' =
                  Put(downstream_lineage, target_node_name,
                      Put(Get(downstream_lineage, target_node_name), TargetColumns[ci], Top.result))
            /\ ci' = ci + 1
            /\ stack' = <<>>
       ELSE /\ stack' = [SubSeq(stack, 1, Len(stack) - 1) EXCEPT
                            ![Len(stack) - 1] = SetResult(@, Top.result)]
            /\ UNCHANGED <<downstream_lineage, ci>>
    /\ UNCHANGED <<inputs, pc, model_columns, target_node_name, i, column_lineage,
                   all_column_lineage, upstream_lineage, visited, expanded, files,
                   returned, error>>

\* both closures of the target are complete
ResolveDone == RootsDone("down")

(***************************************************************************)
(* Targeted mode: the exports.  write_upstream_csv and write_downstream_csv *)
(* (the writers of the rows with a Depth column) are defined by the script *)
(* and called nowhere: no step of the run writes their files.              *)
(***************************************************************************)
\* model_name = target_model if target_model else "all_models"
model_name == IF Truthy(target_model) THEN target_model ELSE <<"a","l","l","_","m","o","d","e","l","s">>

\* json.dump of both closures
ExportJson ==
    /\ pc = "export" \/ ResolveDone
    /\ files' = Put(Put(files, Path(model_name, "_upstream_lineage.json"), upstream_lineage),
                    Path(model_name, "_downstream_lineage.json"), downstream_lineage)
    /\ pc' = "flatten_up"
    /\ UNCHANGED <<inputs, model_columns, target_node_name, i, column_lineage, all_column_lineage,
                   upstream_lineage, downstream_lineage, closure_vars, returned, error>>

\* the (related model, related column) pairs of a closure level, in dict order
LevelItems(related) ==
    Concat([m \in 1..Len(related) |->
        [n \in 1..Len(related[m].v) |-> <<related[m].k, related[m].v[n].k>>]])

\* lineage[model][column][related_model][related_col] can be looked up
HasPath(lineage, model, column, related_model, related_col) ==
    /\ Has(lineage, model)
    /\ Has(Get(lineage, model), column)
    /\ Has(Get(Get(lineage, model), column), related_model)
    /\ Has(Get(Get(Get(lineage, model), column), related_model), related_col)

\* flatten_upstream / flatten_downstream: out is [rows, err], the rows written so far and
\* the exception raised ("None" while there is none); depth is the depth of the recursion
RECURSIVE Flatten(_, _, _, _, _, _)
Flatten(lineage, model, column, related, out, depth) ==
    LET items == LevelItems(related)
        F[n \in 0..Len(items)] ==
            IF n = 0 THEN out
            ELSE IF F[n - 1].err # "None" THEN F[n - 1]
            ELSE LET rows1 == Append(F[n - 1].rows,
                                     CsvRow(model, column, items[n][1], items[n][2]))
                 IN  IF ~HasPath(lineage, model, column, items[n][1], items[n][2])
                     THEN [rows |-> rows1, err |-> "KeyError"]
                     ELSE LET next == Get(Get(Get(Get(lineage, model), column),
                                              items[n][1]), items[n][2])
                          IN  IF next = EmptyDict THEN [rows |-> rows1, err |-> "None"]
                              ELSE IF depth >= RecursionLimit
                              THEN [rows |-> rows1, err |-> "RecursionError"]
                              ELSE Flatten(lineage, items[n][1], items[n][2], next,
                                           [rows |-> rows1, err |-> "None"], depth + 1)
    IN  F[Len(items)]

\* for model, columns in lineage.items(): for column, related in columns.items(): flatten(...)
FlattenAll(lineage) ==
    LET roots == LevelItems(lineage)
        F[n \in 0..Len(roots)] ==
            IF n = 0 THEN [rows |-> <<>>, err |-> "None"]
            ELSE IF F[n - 1].err # "None" THEN F[n - 1]
            ELSE Flatten(lineage, roots[n][1], roots[n][2],
                         Get(Get(lineage, roots[n][1]), roots[n][2]), F[n - 1], 1)
    IN  F[Len(roots)]

\* <model_name>_upstream_lineage.csv
FlattenUpstream ==
    /\ pc = "flatten_up"
    /\ LET out == FlattenAll(upstream_lineage)
       IN  /\ files' = Put(files, Path(model_name, "_upstream_lineage.csv"), out.rows)
           /\ error' = out.err
           /\ pc' = IF out.err = "None" THEN "flatten_down" ELSE "raised"
    /\ UNCHANGED <<inputs, model_columns, target_node_name, i, column_lineage, all_column_lineage,
                   upstream_lineage, downstream_lineage, closure_vars, returned>>

\* <model_name>_downstream_lineage.csv, and the return of both closures
FlattenDownstream ==
    /\ pc = "flatten_down"
    /\ LET out == FlattenAll(downstream_lineage)
       IN  /\ files' = Put(files, Path(model_name, "_downstream_lineage.csv"), out.rows)
           /\ error' = out.err
           /\ IF out.err = "None"
              THEN /\ pc' = "done"
                   /\ returned' = <<<<[k |-> "upstream", v |-> upstream_lineage],
                                      [k |-> "downstream", v |-> downstream_lineage]>>>>
              ELSE /\ pc' = "raised"
                   /\ UNCHANGED returned
    /\ UNCHANGED <<inputs, model_columns, target_node_name, i, column_lineage, all_column_lineage,
                   upstream_lineage, downstream_lineage, closure_vars>>

Next ==
    \/ LoadCatalog
    \/ FindTarget
    \/ InferFlat
    \/ InferTargeted
    \/ ExportFlat
    \/ ExportDownstreamFlat
    \/ StartUpstream
    \/ UpRoot
    \/ UpDescend
    \/ UpRevisit
    \/ UpReturn
    \/ StartDownstream
    \/ DownRoot
    \/ DownDescend
    \/ DownRevisit
    \/ DownReturn
    \/ ExportJson
    \/ FlattenUpstream
    \/ FlattenDownstream

Spec == Init /\ [][Next]_vars

(***************************************************************************)
(* The closures over any graph: the script at "if target_node_name:" with  *)
(* any ColumnLineageGraph of up to MaxEdges edges between the columns of   *)
(* the models, cycles and self-edges included, and any model as target.    *)
(***************************************************************************)
MaxEdges == 3

AllColumns == <<col_x, col_y>>

\* the edges (model, column, upstream model, upstream column) a graph may hold
PossibleEdges == NodeNames \X Range(AllColumns) \X NodeNames \X Range(AllColumns)

\* the graph that recording the edges of es, in order, builds
GraphOf(es) ==
    LET F[n \in 0..Len(es)] ==
            IF n = 0 THEN EmptyDict
            ELSE RecordUpstream(F[n - 1], es[n][1], es[n][2], es[n][3], es[n][4])
    IN  F[Len(es)]

Graphs == {GraphOf(es) : es \in UNION {[1..n -> PossibleEdges] : n \in 0..MaxEdges}}

InitClosure ==
    /\ script = "single_model"
    /\ nodes = EmptyDict
    /\ catalog = EmptyDict
    /\ target_node_name \in NodeNames
    /\ target_model = LastSegment(target_node_name)
    /\ pc = "infer"
    /\ model_columns = <<[k |-> name_a, v |-> AllColumns], [k |-> name_b, v |-> AllColumns]>>
    /\ i = 1
    /\ column_lineage = EmptyDict
    /\ all_column_lineage \in Graphs
    /\ upstream_lineage = EmptyDict
    /\ downstream_lineage = EmptyDict
    /\ ci = 1
    /\ stack = <<>>
    /\ visited = {}
    /\ expanded = <<>>
    /\ files = EmptyDict
    /\ returned = <<>>
    /\ error = "None"

NextClosure ==
    \/ StartUpstream
    \/ UpRoot
    \/ UpDescend
    \/ UpRevisit
    \/ UpReturn
    \/ StartDownstream
    \/ DownRoot
    \/ DownDescend
    \/ DownRevisit
    \/ DownReturn

SpecClosure == InitClosure /\ [][NextClosure]_vars

(***************************************************************************)
(* The closures over any acyclic graph: as above, with the graphs of up to *)
(* MaxAcyclicEdges edges that have no directed cycle (diamonds included).  *)
(***************************************************************************)
MaxAcyclicEdges == 4

\* the (model, column) pairs of the models
ModelPairs == NodeNames \X Range(AllColumns)

\* the ways to rank the pairs, no two alike
Rankings ==
    {r \in [ModelPairs -> 1..Cardinality(ModelPairs)] :
        \A a, b \in ModelPairs : a # b => r[a] # r[b]}

\* the edges whose upstream side ranks below their own side
DownhillEdges(r) == {e \in PossibleEdges : r[<<e[3], e[4]>>] < r[<<e[1], e[2]>>]}

\* a graph has no directed cycle exactly when all its edges go downhill for some ranking
AcyclicGraphs ==
    UNION {{GraphOf(es) : es \in UNION {[1..n -> DownhillEdges(r)] : n \in 0..MaxAcyclicEdges}} :
             r \in Rankings}

InitAcyclic ==
    /\ script = "single_model"
    /\ nodes = EmptyDict
    /\ catalog = EmptyDict
    /\ target_node_name \in NodeNames
    /\ target_model = LastSegment(target_node_name)
    /\ pc = "infer"
    /\ model_columns = <<[k |-> name_a, v |-> AllColumns], [k |-> name_b, v |-> AllColumns]>>
    /\ i = 1
    /\ column_lineage = EmptyDict
    /\ all_column_lineage \in AcyclicGraphs
    /\ upstream_lineage = EmptyDict
    /\ downstream_lineage = EmptyDict
    /\ ci = 1
    /\ stack = <<>>
    /\ visited = {}
    /\ expanded = <<>>
    /\ files = EmptyDict
    /\ returned = <<>>
    /\ error = "None"

SpecAcyclic == InitAcyclic /\ [][NextClosure]_vars

(***************************************************************************)
(* Properties.                                                             *)
(***************************************************************************)
\* the ColumnLineageGraph of the running script
Graph == IF script = "all_lineage" THEN column_lineage ELSE all_column_lineage

\* the edges (m, c, u, uc) of a graph, as a set
GraphEdges(g) ==
    UNION {UNION {UNION {{<<g[m].k, g[m].v[c].k, g[m].v[c].v[u].k, uc>> :
                            uc \in Range(g[m].v[c].v[u].v)} :
                         u \in 1..Len(g[m].v[c].v)} :
                  c \in 1..Len(g[m].v)} :
           m \in 1..Len(g)}

InferenceDone == pc \notin {"load", "find"} /\ i > Len(nodes)

\* the columns the catalog lists for a name (none when the catalog has no such entry)
CatalogColumns(name) == IF Has(catalog, name) THEN Range(Get(catalog, name).columns) ELSE {}

\* the dependencies the manifest declares for a name
DeclaredDependencies(name) ==
    IF Has(nodes, name) THEN Range(Get(nodes, name).depends_on.nodes) ELSE {}

\* C1: every edge (m, c, u, uc) of the graph, in flat and in targeted mode, is anchored:
\* u is a declared dependency of m, uc is a column of u's catalog entry and c is a
\* column of m's catalog entry.
C1_EdgesAnchored ==
    \A e \in GraphEdges(Graph) :
        /\ e[3] \in DeclaredDependencies(e[1])
        /\ e[4] \in CatalogColumns(e[3])
        /\ e[2] \in CatalogColumns(e[1])

\* inference has run over a manifest with two models, one of which does not declare the
\* other as a dependency, and has recorded edges
C1_Witness ==
    /\ InferenceDone
    /\ Len(nodes) = 2
    /\ GraphEdges(Graph) # {}
    /\ \E n \in 1..Len(nodes) : \E m \in NodeNames :
          /\ Has(model_columns, m)
          /\ m \notin DeclaredDependencies(nodes[n].k)
          /\ \E e \in GraphEdges(Graph) : e[1] = nodes[n].k

\* the maximal runs of word characters of a text
WordsOf(text) ==
    {SubSeq(text, a, b) : <<a, b>> \in
        {r \in (1..Len(text)) \X (1..Len(text)) :
            /\ r[1] <= r[2]
            /\ \A n \in r[1]..r[2] : text[n] \in WordChars
            /\ ~IsWordAt(text, r[1] - 1)
            /\ ~IsWordAt(text, r[2] + 1)}}

\* the compiled text of a manifest node ("" when it has none)
TextOf(name) ==
    IF Has(nodes, name) /\ "compiled_sql" \in DOMAIN Get(nodes, name)
    THEN Get(nodes, name).compiled_sql ELSE <<>>

\* C4: presence gate: an upstream column name that is no whole word (case-sensitive) of
\* m's compiled text is the upstream column of no edge of m, whatever the two
\* case-insensitive patterns match.
C4_PresenceGate ==
    \A e \in GraphEdges(Graph) : e[4] \in WordsOf(TextOf(e[1]))

\* inference has run over a model whose text matches the assignment pattern for an upstream
\* column that the text holds in another case only, and that column has no edge
C4_Witness ==
    /\ InferenceDone
    /\ \E n \in 1..Len(nodes) : \E u \in DeclaredDependencies(nodes[n].k) :
          /\ resource_type(nodes[n].v) = "model"
          /\ Has(model_columns, nodes[n].k)
          /\ Has(model_columns, u)
          /\ \E uc \in Range(Get(model_columns, u)) : \E c \in Range(Get(model_columns, nodes[n].k)) :
                /\ uc \notin WordsOf(TextOf(nodes[n].k))
                /\ PatternMatch(TextOf(nodes[n].k), c, uc)
                /\ \A e \in GraphEdges(Graph) : ~(e[1] = nodes[n].k /\ e[4] = uc)

\* a model that edge inference skips: not of kind model, no compiled text, or no catalog
\* entry of kind table or view
Skipped(name) ==
    \/ ~Has(nodes, name)
    \/ "resource_type" \notin DOMAIN Get(nodes, name)
    \/ Get(nodes, name).resource_type # "model"
    \/ TextOf(name) = <<>>
    \/ ~Has(catalog, name)
    \/ Get(catalog, name).metadata.type \notin {"table", "view"}

\* C5: a skipped model is the producing side of no edge, and a dependency without a
\* catalog entry is the upstream side of no edge.
C5_SkippedModels ==
    \A e \in GraphEdges(Graph) : ~Skipped(e[1]) /\ Has(catalog, e[3])

\* inference has run over a skipped model whose text, own catalog columns and dependency
\* would have given an edge, next to a model that did get one
C5_Witness ==
    /\ InferenceDone
    /\ GraphEdges(Graph) # {}
    /\ \E n \in 1..Len(nodes) : \E u \in DeclaredDependencies(nodes[n].k) :
          /\ Skipped(nodes[n].k)
          /\ \E uc \in CatalogColumns(u) : \E c \in CatalogColumns(nodes[n].k) :
                /\ uc \in WordsOf(TextOf(nodes[n].k))
                /\ PatternMatch(TextOf(nodes[n].k), c, uc)

Count(seq, x) == Cardinality({n \in 1..Len(seq) : seq[n] = x})

\* C6: the list of upstream columns stored for any (model, column, upstream model) holds
\* no column name twice, in flat and in targeted mode, also when a dependency list names
\* the same upstream model more than once.
C6_NoDuplicateUpstreamColumn ==
    \A m \in 1..Len(Graph) : \A c \in 1..Len(Graph[m].v) : \A u \in 1..Len(Graph[m].v[c].v) :
        \A uc \in Range(Graph[m].v[c].v[u].v) : Count(Graph[m].v[c].v[u].v, uc) = 1

FileRows(path) == IF Has(files, path) THEN Get(files, path) ELSE <<>>

FlatDone == script = "all_lineage" /\ pc = "done"

\* the upstream columns the graph lists for (m, c, u)
UpstreamList(g, m, c, u) ==
    IF Has(g, m) /\ Has(Get(g, m), c) /\ Has(Get(Get(g, m), c), u)
    THEN Get(Get(Get(g, m), c), u) ELSE <<>>

\* C7: flat-mode inversion is the exact inverse of the graph: (m, c) is held under (u, uc)
\* as often as uc is listed under (m, c, u), so every edge is there and nothing else is;
\* the downstream CSV has the row (last segment of u, uc, last segment of m, c) of every
\* edge, and as many rows as the upstream CSV.
C7_InversionExact ==
    FlatDone =>
        /\ \A e \in GraphEdges(column_lineage) :
              /\ Has(downstream_lineage, e[3])
              /\ Has(Get(downstream_lineage, e[3]), e[4])
              /\ Count(Get(Get(downstream_lineage, e[3]), e[4]), <<e[1], e[2]>>)
                   = Count(UpstreamList(column_lineage, e[1], e[2], e[3]), e[4])
              /\ <<LastSegment(e[3]), e[4], LastSegment(e[1]), e[2]>>
                   \in Range(FileRows(Path(<<>>, "downstream_lineage.csv")))
        /\ \A u \in 1..Len(downstream_lineage) : \A uc \in 1..Len(downstream_lineage[u].v) :
              \A d \in Range(downstream_lineage[u].v[uc].v) :
                 <<d[1], d[2], downstream_lineage[u].k, downstream_lineage[u].v[uc].k>>
                    \in GraphEdges(column_lineage)
        /\ Len(FileRows(Path(<<>>, "downstream_lineage.csv")))
             = Len(FileRows(Path(<<>>, "column_lineage.csv")))

\* a flat run has ended with edges of two models, one of them listed twice
C7_Witness ==
    /\ FlatDone
    /\ \E e1, e2 \in GraphEdges(column_lineage) : e1[1] # e2[1] /\ e1[3] # e2[3]
    /\ Len(FileRows(Path(<<>>, "column_lineage.csv"))) > Cardinality(GraphEdges(column_lineage))

\* the (model, column) pairs at every level of a closure
RECURSIVE PairsIn(_)
PairsIn(tree) ==
    UNION {UNION {{<<tree[m].k, tree[m].v[c].k>>} \cup PairsIn(tree[m].v[c].v) :
                    c \in 1..Len(tree[m].v)} :
           m \in 1..Len(tree)}

\* the pairs of a closure whose own closure is not empty, each as often as it occurs
RECURSIVE NonEmptyPairs(_)
NonEmptyPairs(tree) ==
    Concat([m \in 1..Len(tree) |->
      Concat([c \in 1..Len(tree[m].v) |->
        (IF tree[m].v[c].v = EmptyDict THEN <<>> ELSE <<<<tree[m].k, tree[m].v[c].k>>>>)
          \o NonEmptyPairs(tree[m].v[c].v)])])

NoRepeat(seq) == \A a, b \in 1..Len(seq) : a # b => seq[a] # seq[b]

\* in every closure stored for the target, the root has an empty closure where it recurs,
\* and no pair has a non-empty closure in two places
StoredClosuresExpandOnce(lineage) ==
    \A t \in 1..Len(lineage) : \A c \in 1..Len(lineage[t].v) :
        NoRepeat(<<<<lineage[t].k, lineage[t].v[c].k>>>> \o NonEmptyPairs(lineage[t].v[c].v))

\* the pairs a traversal may visit
AllPairs == NodeNames \X Range(AllColumns)

\* more than the frames pushed by one call can add to the work left
FrameWeight == Len(EdgeList(all_column_lineage)) + 2

\* the items the frames of a stack have not yet handled, and the frames themselves
StackWork(st) ==
    LET F[n \in 0..Len(st)] ==
            IF n = 0 THEN 0 ELSE F[n - 1] + (Len(st[n].items) - st[n].n + 1) + 1
    IN  F[Len(st)]

RootWeight == 2 * (Cardinality(AllPairs) + 1) * FrameWeight

\* the root calls that are not yet complete
RootsLeft(p, c) ==
    CASE p = "infer" -> 2 * Len(TargetColumns) + 2
      [] p = "up" -> 2 * Len(TargetColumns) + 2 - c
      [] p = "down" -> Len(TargetColumns) + 1 - c
      [] OTHER -> 0

\* what is left to do at position p, root c, with stack st and visited set vis
WorkLeft(p, c, st, vis) ==
    RootsLeft(p, c) * RootWeight
      + (IF st = <<>> THEN RootWeight - 1
         ELSE Cardinality(AllPairs \ vis) * FrameWeight + StackWork(st))

\* a step of the closures can be taken: one of the guards of their steps holds
CanStep ==
    \/ InferenceOver
    \/ RootsDone("up")
    \/ \E dir \in {"up", "down"} : AtRoot(dir) \/ InCall(dir) \/ AtReturn(dir)

\* C2: over any graph, cyclic ones included, the closures of every root terminate (the
\* run is never stuck before both closures are complete, and every step lowers the work
\* left, which is never negative), no pair has its edges looked up twice for one root, and
\* a pair met again has an empty closure.
C2_CycleSafe ==
    /\ [](/\ NoRepeat(expanded)
          /\ error = "None"
          /\ StoredClosuresExpandOnce(upstream_lineage)
          /\ StoredClosuresExpandOnce(downstream_lineage)
          /\ WorkLeft(pc, ci, stack, visited) >= 0
          /\ ResolveDone \/ CanStep)
    /\ [][WorkLeft(pc', ci', stack', visited') < WorkLeft(pc, ci, stack, visited)]_vars

\* both closures of a root on a cycle through another pair are complete: the root recurs
\* under that pair, upstream and downstream
C2_Witness ==
    /\ ResolveDone
    /\ \E c \in 1..Len(TargetColumns) :
          LET root == <<target_node_name, TargetColumns[c]>>
              up == Get(Get(upstream_lineage, target_node_name), TargetColumns[c])
              down == Get(Get(downstream_lineage, target_node_name), TargetColumns[c])
          IN  /\ \E m \in 1..Len(up) : \E k \in 1..Len(up[m].v) :
                    <<up[m].k, up[m].v[k].k>> # root /\ root \in PairsIn(up[m].v[k].v)
              /\ \E m \in 1..Len(down) : \E k \in 1..Len(down[m].v) :
                    <<down[m].k, down[m].v[k].k>> # root /\ root \in PairsIn(down[m].v[k].v)

\* the closure stored for a root ({} when none is stored)
ClosureOf(lineage, node_name, column_name) ==
    IF Has(lineage, node_name) /\ Has(Get(lineage, node_name), column_name)
    THEN Get(Get(lineage, node_name), column_name) ELSE EmptyDict

\* C3: for every edge (m, c, u, uc), (u, uc) is in the upstream closure rooted at (m, c)
\* and (m, c) is in the downstream closure rooted at (u, uc), cycles and self-edges
\* included (the roots are the columns of the target, and every model is a target).
C3_EdgeInBothClosures ==
    ResolveDone =>
        \A e \in GraphEdges(all_column_lineage) :
            /\ e[1] = target_node_name =>
                  <<e[3], e[4]>> \in PairsIn(ClosureOf(upstream_lineage, e[1], e[2]))
            /\ e[3] = target_node_name =>
                  <<e[1], e[2]>> \in PairsIn(ClosureOf(downstream_lineage, e[3], e[4]))

\* the closures are complete for a target with a self-edge, an edge between two of its
\* own columns and an edge from another model
C3_Witness ==
    /\ ResolveDone
    /\ \E e1, e2, e3 \in GraphEdges(all_column_lineage) :
          /\ e1[1] = target_node_name /\ e1[3] = target_node_name /\ e1[2] = e1[4]
          /\ e2[1] = target_node_name /\ e2[3] = target_node_name /\ e2[2] # e2[4]
          /\ e3[1] # target_node_name /\ e3[3] = target_node_name

TargetedDone == script = "single_model" /\ pc = "done"

\* no node of the manifest has the target as its last segment
TargetMissing ==
    /\ Truthy(target_model)
    /\ \A n \in 1..Len(nodes) : LastSegment(nodes[n].k) # target_model

\* C8: a targeted run for a model name that matches no node returns, without an error, a
\* result of the shape of a successful run: the upstream and the downstream structure,
\* both present and empty.
C8_MissingTargetShape ==
    (script = "single_model" /\ TargetMissing /\ pc \notin {"load", "find"}) =>
        /\ pc = "done"
        /\ error = "None"
        /\ Len(returned) = 1
        /\ Keys(returned[1]) = <<"upstream", "downstream">>
        /\ \A n \in 1..Len(returned[1]) : returned[1][n].v = EmptyDict

\* C9: a targeted run whose target is found writes six artifacts, two structured documents
\* and four tabular files, two of them with a depth value in every row.
C9_SixArtifacts ==
    (TargetedDone /\ target_node_name # None) => Len(files) = 6

\* the rows of a closure: one per parent-child link, parent first, at every level
RECURSIVE LinkRows(_, _, _)
LinkRows(model, column, tree) ==
    Concat([m \in 1..Len(tree) |->
      Concat([c \in 1..Len(tree[m].v) |->
        <<CsvRow(model, column, tree[m].k, tree[m].v[c].k)>>
          \o LinkRows(tree[m].k, tree[m].v[c].k, tree[m].v[c].v)])])

\* the rows of all the closures of a lineage
LineageRows(lineage) ==
    Concat([t \in 1..Len(lineage) |->
      Concat([c \in 1..Len(lineage[t].v) |->
        LinkRows(lineage[t].k, lineage[t].v[c].k, lineage[t].v[c].v)])])

\* C10: in targeted mode the flattening of the upstream and of the downstream closure runs
\* to completion and writes one row per parent-child link at every nesting level, also for
\* closures two or more hops deep through other models.
C10_FlattenComplete ==
    (script = "single_model" /\ target_node_name # None) =>
        /\ pc # "raised"
        /\ Has(files, Path(model_name, "_upstream_lineage.csv")) =>
              Get(files, Path(model_name, "_upstream_lineage.csv")) = LineageRows(upstream_lineage)
        /\ Has(files, Path(model_name, "_downstream_lineage.csv")) =>
              Get(files, Path(model_name, "_downstream_lineage.csv")) = LineageRows(downstream_lineage)

\* inference has run over the nodes and catalog of a scenario
ScenarioDone(scenario) ==
    InferenceDone /\ nodes = scenario.nodes /\ catalog = scenario.catalog

\* C11 as stated: in the aliasing scenario the edges order_summary.order_id <- raw_orders.id
\* and order_summary.total <- raw_orders.amount are recorded, and they are the only edges.
C11_AliasingOnlyTwoEdges ==
    ScenarioDone(ScenarioAliasing) =>
        GraphEdges(Graph) = {<<name_order_summary, col_order_id, name_raw_orders, col_id>>,
                             <<name_order_summary, col_total, name_raw_orders, col_amount>>}

\* C11, amended: in the aliasing scenario, in flat and in targeted mode, the graph holds
\* order_summary.order_id <- raw_orders.id, order_summary.total <- raw_orders.amount and a
\* third edge order_summary.total <- raw_orders.id ("select id ... as total" matches the
\* aliasing pattern across the comma), and nothing else.
C11_AliasingEdges ==
    ScenarioDone(ScenarioAliasing) =>
        Graph = <<[k |-> name_order_summary,
                   v |-> <<[k |-> col_order_id,
                            v |-> <<[k |-> name_raw_orders, v |-> <<col_id>>]>>],
                           [k |-> col_total,
                            v |-> <<[k |-> name_raw_orders, v |-> <<col_id, col_amount>>]>>]>>]>>

\* inference has run over the aliasing scenario and has recorded its two aliases
C11_Witness ==
    /\ ScenarioDone(ScenarioAliasing)
    /\ <<name_order_summary, col_order_id, name_raw_orders, col_id>> \in GraphEdges(Graph)
    /\ <<name_order_summary, col_total, name_raw_orders, col_amount>> \in GraphEdges(Graph)

\* C12 as stated: in the unaliased-passthrough scenario no edge at all is recorded for
\* order_summary.
C12_PassthroughNoEdge ==
    ScenarioDone(ScenarioPassthrough) => GraphEdges(Graph) = {}

\* C12, amended: in the unaliased-passthrough scenario, in flat and in targeted mode, no
\* edge is recorded for the column order_summary.order_id, and exactly one edge is
\* recorded for order_summary: total <- orders.order_id ("select order_id, sum(amount) as
\* total" matches the aliasing pattern).
C12_PassthroughEdges ==
    ScenarioDone(ScenarioPassthrough) =>
        Graph = <<[k |-> name_order_summary,
                   v |-> <<[k |-> col_total,
                            v |-> <<[k |-> name_orders, v |-> <<col_order_id>>]>>]>>]>>

\* inference has run over the passthrough scenario: order_id passes the presence gate and
\* no pattern links it to the own column order_id
C12_Witness ==
    /\ ScenarioDone(ScenarioPassthrough)
    /\ PresenceGate(TextOf(name_order_summary), col_order_id)
    /\ ~PatternMatch(TextOf(name_order_summary), col_order_id, col_order_id)
    /\ \A e \in GraphEdges(Graph) : e[2] # col_order_id

\* C13: for the same model graph and catalog, the graph flat mode builds and the graph
\* targeted mode builds are structurally identical: the graph of the running script is
\* the graph the other script builds from the same nodes and catalog columns.
C13_SameGraphInBothModes ==
    InferenceDone =>
        /\ script = "all_lineage" => column_lineage = TargetedGraphOf(nodes, model_columns)
        /\ script = "single_model" => all_column_lineage = FlatGraphOf(nodes, model_columns)

\* the pairs of a closure with the closure nested under each, parents first, in the order
\* of the traversal
RECURSIVE Occurrences(_)
Occurrences(tree) ==
    Concat([m \in 1..Len(tree) |->
      Concat([c \in 1..Len(tree[m].v) |->
        <<[pair |-> <<tree[m].k, tree[m].v[c].k>>, nested |-> tree[m].v[c].v]>>
          \o Occurrences(tree[m].v[c].v)])])

\* the direct upstream pairs of a pair, in the order of the graph
DirectUpstream(pair) == UpstreamFrame(all_column_lineage, pair[1], pair[2]).items

\* the direct downstream pairs of a pair, in the order of the scan
DirectDownstream(pair) == DownstreamItems(all_column_lineage, pair[1], pair[2])

\* C14 as stated: in an acyclic graph the closure nested under every pair of a root's
\* closure tree is the closure of a fresh traversal rooted at that pair (here: the closure
\* the run stores for the pair, where the pair is a column of the target), and is empty
\* only for a pair with no upstream edges; likewise downstream.
C14_NestedEqualsFresh ==
    ResolveDone =>
        \A c \in Range(TargetColumns) :
            LET up == Occurrences(ClosureOf(upstream_lineage, target_node_name, c))
                down == Occurrences(ClosureOf(downstream_lineage, target_node_name, c))
            IN  /\ \A k \in 1..Len(up) :
                      /\ up[k].pair[1] = target_node_name =>
                            up[k].nested = ClosureOf(upstream_lineage, up[k].pair[1], up[k].pair[2])
                      /\ up[k].nested = EmptyDict => DirectUpstream(up[k].pair) = <<>>
                /\ \A k \in 1..Len(down) :
                      /\ down[k].pair[1] = target_node_name =>
                            down[k].nested = ClosureOf(downstream_lineage, down[k].pair[1], down[k].pair[2])
                      /\ down[k].nested = EmptyDict => DirectDownstream(down[k].pair) = <<>>

\* the first level of the closure nested under the first occurrence of a pair is the
\* list of its direct related pairs, and every later occurrence has an empty closure
FirstOccurrenceExpands(occ, direct(_)) ==
    \A k \in 1..Len(occ) :
        IF \E j \in 1..(k - 1) : occ[j].pair = occ[k].pair
        THEN occ[k].nested = EmptyDict
        ELSE LevelItems(occ[k].nested) = direct(occ[k].pair)

\* C14, amended: in an acyclic graph, for every pair of the upstream closure tree of a
\* root, the closure nested under its first occurrence in traversal order lists exactly
\* the pair's direct upstream edges at its first level (so it is empty only for a pair
\* with no upstream edges), and the closure nested under every later occurrence of the
\* pair (reached through another branch, as in a diamond) is empty; likewise downstream.
C14_NestedOnceThenEmpty ==
    ResolveDone =>
        \A c \in Range(TargetColumns) :
            /\ FirstOccurrenceExpands(
                  Occurrences(ClosureOf(upstream_lineage, target_node_name, c)), DirectUpstream)
            /\ FirstOccurrenceExpands(
                  Occurrences(ClosureOf(downstream_lineage, target_node_name, c)), DirectDownstream)

\* both closures are complete for a root over a diamond: a pair with upstream edges occurs
\* twice in the root's upstream closure, once with its closure and once with none
C14_Witness ==
    /\ ResolveDone
    /\ \E c \in Range(TargetColumns) :
          LET up == Occurrences(ClosureOf(upstream_lineage, target_node_name, c))
          IN  \E j, k \in 1..Len(up) :
                 /\ j < k
                 /\ up[j].pair = up[k].pair
                 /\ up[j].nested # EmptyDict
                 /\ up[k].nested = EmptyDict

====
